---- MODULE Spec2Model ----
(***************************************************************************)
(* Model of the pdf-to-webpage pipeline core:                               *)
(*   scripts/markdown_convert.py  MarkdownConverter                         *)
(*   scripts/generate_html.py     ERNIEHTMLGenerator                        *)
(*   scripts/extract_pdf.py       PaddleOCRExtractor                        *)
(*   app.py                       session state and button handlers         *)
(* A Python str is a sequence of one-character strings, so that split,      *)
(* strip, startswith, replace and join are computed character by character. *)
(* A fixed stretch of template text that no operation inspects is written   *)
(* as one element holding the whole stretch.                                *)
(***************************************************************************)
EXTENDS Integers, Sequences, FiniteSets, TLC

VARIABLES
    markdown_content,   \* str argument of _markdown_to_html / generate_html
    html_lines,         \* list returned by _markdown_to_html
    render_pc,          \* "start" | "done" : position of the renderer call
    renders,            \* invocations of _markdown_to_html so far: (markdown, html_lines)
    arg_token,          \* access_token argument of ERNIEHTMLGenerator(...)
    env_token,          \* os.getenv("BAIDU_ACCESS_TOKEN", "")
    access_token,       \* self.access_token
    available,          \* self.available
    page_title,         \* page_title argument of generate_html
    gen_pc,             \* "new" | "ready" | "post" | "response" | "done"
    requests,           \* requests.post calls made by the current invocation
    response,           \* outcome of requests.post
    gen_result,         \* how generate_html ended: returned html or raised
    calls,              \* invocations completed so far: (markdown, title, html)
    content,            \* argument of convert_content
    origin,             \* where content came from: "extract" | "json"
    markdown_lines,     \* the list convert_content collects
    conv_result,        \* how convert_content ended: returned str or raised
    conv_pc,            \* "start" | "collected" | "done" | "raised"
    meta_body,          \* markdown_content argument of add_metadata
    meta_title,         \* title argument of add_metadata
    meta_author,        \* author argument of add_metadata
    meta_date,          \* date argument of add_metadata
    metadata,           \* the list add_metadata builds
    meta_result,        \* the str add_metadata returns
    meta_pc,            \* "start" | "built" | "done"
    api_url,            \* os.getenv("PADDLEOCR_VL_API_URL", "")
    token,              \* os.getenv("BAIDU_ACCESS_TOKEN", "") as the extractor reads it
    ocr_available,      \* PaddleOCRExtractor.available
    ocr_requests,       \* requests.post calls made by extract_from_pdf
    ocr_response,       \* outcome of that requests.post
    ext_result,         \* how extract_from_pdf ended: returned pages or raised
    ext_pc,             \* "new" | "ready" | "read" | "post" | "response" | "done"
    uploaded_file,      \* value of the st.file_uploader widget
    session_state,      \* st.session_state
    environ,            \* os.environ of the app process
    clicked,            \* the handler that ran last
    before,             \* st.session_state when that handler started
    shown,              \* show_error / show_success of that handler
    stage               \* what that handler called: requests made, extraction result

renderVars == <<markdown_content, html_lines, render_pc, renders>>

genVars == <<arg_token, env_token, access_token, available, page_title, gen_pc,
             requests, response, gen_result, calls>>

convVars == <<content, origin, markdown_lines, conv_result, conv_pc>>

metaVars == <<meta_body, meta_title, meta_author, meta_date, metadata, meta_result, meta_pc>>

extVars == <<api_url, token, ocr_available, ocr_requests, ocr_response, ext_result, ext_pc>>

appVars == <<uploaded_file, session_state, environ, clicked, before, shown, stage>>

vars == <<renderVars, genVars, convVars, metaVars, extVars, appVars>>

----------------------------------------------------------------------------
(* Bounds *)

MaxLines == 3        \* lines of a markdown input
MaxPages == 3        \* page records of an extraction result
MaxCalls == 2        \* invocations of generate_html in one behaviour

----------------------------------------------------------------------------
(* Python str primitives *)

\* str.isspace() of one character, as used by strip()/rstrip() with no argument
IsSpace(c) == c \in {" ", "\t", "\n", "\r", "\f"}

RECURSIVE Rstrip(_)
Rstrip(s) ==
    IF s = <<>> THEN s
    ELSE IF IsSpace(s[Len(s)]) THEN Rstrip(SubSeq(s, 1, Len(s) - 1))
    ELSE s

RECURSIVE Lstrip(_)
Lstrip(s) ==
    IF s = <<>> THEN s
    ELSE IF IsSpace(s[1]) THEN Lstrip(Tail(s))
    ELSE s

Strip(s) == Lstrip(Rstrip(s))

StartsWith(s, p) == Len(s) >= Len(p) /\ SubSeq(s, 1, Len(p)) = p

\* s[n:]
DropFirst(s, n) == SubSeq(s, n + 1, Len(s))

\* s.split(sep) for a one-character sep: always at least one piece
RECURSIVE SplitAcc(_, _, _)
SplitAcc(s, sep, cur) ==
    IF s = <<>> THEN <<cur>>
    ELSE IF s[1] = sep THEN <<cur>> \o SplitAcc(Tail(s), sep, <<>>)
    ELSE SplitAcc(Tail(s), sep, Append(cur, s[1]))

Split(s, sep) == SplitAcc(s, sep, <<>>)

\* sep.join(parts)
RECURSIVE Join(_, _)
Join(parts, sep) ==
    IF parts = <<>> THEN <<>>
    ELSE IF Len(parts) = 1 THEN parts[1]
    ELSE parts[1] \o sep \o Join(Tail(parts), sep)

\* s.replace(old, "") : leftmost non-overlapping occurrences removed
RECURSIVE Remove(_, _)
Remove(s, old) ==
    IF s = <<>> THEN s
    ELSE IF StartsWith(s, old) THEN Remove(DropFirst(s, Len(old)), old)
    ELSE <<s[1]>> \o Remove(Tail(s), old)

\* number of (possibly overlapping) occurrences of p in s
RECURSIVE CountSub(_, _)
CountSub(s, p) ==
    IF Len(s) < Len(p) THEN 0
    ELSE (IF StartsWith(s, p) THEN 1 ELSE 0) + CountSub(Tail(s), p)

----------------------------------------------------------------------------
(* Fallback renderer: ERNIEHTMLGenerator._markdown_to_html *)

NL == "\n"

UlOpen  == <<"<", "u", "l", ">">>
UlClose == <<"<", "/", "u", "l", ">">>

H1Prefix == <<"#", " ">>
H2Prefix == <<"#", "#", " ">>
H3Prefix == <<"#", "#", "#", " ">>
LiPrefix == <<"-", " ">>

\* f"<{tag}>{body}</{tag}>" for a tag given as its characters
Element(tag, body) == <<"<">> \o tag \o <<">">> \o body \o <<"<", "/">> \o tag \o <<">">>

H1(body) == Element(<<"h", "1">>, body)
H2(body) == Element(<<"h", "2">>, body)
H3(body) == Element(<<"h", "3">>, body)
Li(body) == Element(<<"l", "i">>, body)
P(body)  == Element(<<"p">>, body)

RenderStart_Leaky == [html_lines |-> <<>>, in_list |-> renders # <<>>]

\* loop state of _markdown_to_html before the first line
RenderStart == [html_lines |-> <<>>, in_list |-> FALSE]

Emit_Prepend(st, line) == [st EXCEPT !.html_lines = <<line>> \o @]

Emit(st, line) == [st EXCEPT !.html_lines = Append(@, line)]

CloseList_NoTag(st) == [st EXCEPT !.in_list = FALSE]

\* if in_list: html_lines.append("</ul>"); in_list = False
CloseList(st) ==
    IF st.in_list
    THEN [html_lines |-> Append(st.html_lines, UlClose), in_list |-> FALSE]
    ELSE st

OpenList_EveryItem(st) ==
    [html_lines |-> Append(st.html_lines, UlOpen), in_list |-> TRUE]

\* if not in_list: html_lines.append("<ul>"); in_list = True
OpenList(st) ==
    IF ~st.in_list
    THEN [html_lines |-> Append(st.html_lines, UlOpen), in_list |-> TRUE]
    ELSE st

RenderLine_SwappedLevels(st, raw) ==
    LET line == Rstrip(raw) IN
    IF line = <<>> THEN CloseList(st)
    ELSE IF StartsWith(line, H1Prefix) THEN Emit(CloseList(st), H1(Strip(DropFirst(line, 2))))
    ELSE IF StartsWith(line, H2Prefix) THEN Emit(CloseList(st), H3(Strip(DropFirst(line, 3))))
    ELSE IF StartsWith(line, H3Prefix) THEN Emit(CloseList(st), H2(Strip(DropFirst(line, 4))))
    ELSE IF StartsWith(line, LiPrefix) THEN Emit(OpenList(st), Li(Strip(DropFirst(line, 2))))
    ELSE Emit(CloseList(st), P(line))

RenderLine_BlankKeepsList(st, raw) ==
    LET line == Rstrip(raw) IN
    IF line = <<>> THEN st
    ELSE IF StartsWith(line, H1Prefix) THEN Emit(CloseList(st), H1(Strip(DropFirst(line, 2))))
    ELSE IF StartsWith(line, H2Prefix) THEN Emit(CloseList(st), H2(Strip(DropFirst(line, 3))))
    ELSE IF StartsWith(line, H3Prefix) THEN Emit(CloseList(st), H3(Strip(DropFirst(line, 4))))
    ELSE IF StartsWith(line, LiPrefix) THEN Emit(OpenList(st), Li(Strip(DropFirst(line, 2))))
    ELSE Emit(CloseList(st), P(line))

RenderLine_ParagraphKeepsList(st, raw) ==
    LET line == Rstrip(raw) IN
    IF line = <<>> THEN CloseList(st)
    ELSE IF StartsWith(line, H1Prefix) THEN Emit(CloseList(st), H1(Strip(DropFirst(line, 2))))
    ELSE IF StartsWith(line, H2Prefix) THEN Emit(CloseList(st), H2(Strip(DropFirst(line, 3))))
    ELSE IF StartsWith(line, H3Prefix) THEN Emit(CloseList(st), H3(Strip(DropFirst(line, 4))))
    ELSE IF StartsWith(line, LiPrefix) THEN Emit(OpenList(st), Li(Strip(DropFirst(line, 2))))
    ELSE Emit(st, P(line))

RenderLine_NoRstrip(st, raw) ==
    LET line == raw IN
    IF line = <<>> THEN CloseList(st)
    ELSE IF StartsWith(line, H1Prefix) THEN Emit(CloseList(st), H1(Strip(DropFirst(line, 2))))
    ELSE IF StartsWith(line, H2Prefix) THEN Emit(CloseList(st), H2(Strip(DropFirst(line, 3))))
    ELSE IF StartsWith(line, H3Prefix) THEN Emit(CloseList(st), H3(Strip(DropFirst(line, 4))))
    ELSE IF StartsWith(line, LiPrefix) THEN Emit(OpenList(st), Li(Strip(DropFirst(line, 2))))
    ELSE Emit(CloseList(st), P(line))

\* one iteration of the for loop, on the raw line
RenderLine(st, raw) ==
    LET line == Rstrip(raw) IN
    IF line = <<>> THEN CloseList(st)
    ELSE IF StartsWith(line, H1Prefix) THEN Emit(CloseList(st), H1(Strip(DropFirst(line, 2))))
    ELSE IF StartsWith(line, H2Prefix) THEN Emit(CloseList(st), H2(Strip(DropFirst(line, 3))))
    ELSE IF StartsWith(line, H3Prefix) THEN Emit(CloseList(st), H3(Strip(DropFirst(line, 4))))
    ELSE IF StartsWith(line, LiPrefix) THEN Emit(OpenList(st), Li(Strip(DropFirst(line, 2))))
    ELSE Emit(CloseList(st), P(line))

RECURSIVE RenderLines(_, _)
RenderLines(st, lines) ==
    IF lines = <<>> THEN st
    ELSE RenderLines(RenderLine(st, lines[1]), Tail(lines))

FinishList_NoClose(st) == st.html_lines

\* after the loop: if in_list: html_lines.append("</ul>")
FinishList(st) ==
    IF st.in_list THEN Append(st.html_lines, UlClose) ELSE st.html_lines

_markdown_to_html(md) == FinishList(RenderLines(RenderStart, Split(md, NL)))

----------------------------------------------------------------------------
(* Page template: ERNIEHTMLGenerator._wrap_with_styling *)

\* the literal "<!DOCTYPE"
Marker == <<"<", "!", "D", "O", "C", "T", "Y", "P", "E">>

\* fixed text of the f-string around its three substitutions
TplHead   == Marker \o <<" html> <html lang=en> <head> <meta charset> <meta viewport> <title>">>
TplStyle  == <<"</title> <style> ...stylesheet... </style> </head> <body> <main> <header> <h1>(page icon) ">>
TplHeader == <<"</h1> <p>Generated using PaddleOCR-VL & ERNIE</p> </header> <article> ">>
TplFooter == <<" </article> <footer> ...credits... </footer> </main> </body> </html>">>

_wrap_with_styling_TitledFooter(html_body, title) ==
    TplHead \o title \o TplStyle \o title \o TplHeader \o html_body \o TplFooter \o title

\* lines 183-318: the f-string; page_title at lines 188 and 306, html_body at line 310
_wrap_with_styling(html_body, title) ==
    TplHead \o title \o TplStyle \o title \o TplHeader \o html_body \o TplFooter

_fallback_html_ShowsError(md, title) ==
    _wrap_with_styling(Join(_markdown_to_html(md), <<NL>>),
                       IF response.exc # "none" THEN title \o <<" ", "(", "!", ")">> ELSE title)

_fallback_html_Unjoined(md, title) ==
    _wrap_with_styling(Join(_markdown_to_html(md), <<>>), title)

_fallback_html(md, title) ==
    _wrap_with_styling(Join(_markdown_to_html(md), <<NL>>), title)

----------------------------------------------------------------------------
(* The external generation service, as generate_html sees it *)

\* stands for the character U+0060 (the module syntax has no literal for it)
Backtick == "BACKTICK"

Fence     == <<Backtick, Backtick, Backtick>>
FenceHtml == Fence \o <<"h", "t", "m", "l">>

\* texts the service can put in its answer
ResponseTexts ==
    { Marker \o <<"x">>,                                    \* a document
      FenceHtml \o <<NL>> \o Marker \o <<"x", NL>> \o Fence, \* fenced document
      <<" ", NL>> \o Marker \o <<"x", " ">>,                \* padded document
      <<"<", "!", "d", "o", "c", "t", "y", "p", "e", "x">>, \* marker in lower case
      <<"x">> \o Marker,                                    \* marker not first
      <<"<", "!", "D", "O", "C">> \o Fence \o <<"T", "Y", "P", "E">>,
      Fence,                                                \* nothing but a fence
      <<>> }

NoText == <<>>

\* response.json() and the value found in it:
\*   notjson               json() raises
\*   result / choices      a dict with that key, and what the key leads to:
\*       str      the text field is a str (text)
\*       missing  the text field is absent, .get gives ''
\*       nonstr   the text field is not a str (null, a number)
\*       notdict  result is no dict / choices[0] or message is no dict
\*       empty    choices is an empty list
\*   other                 a dict with neither key: str(result), begins with "{"
\*   jsonstr               the JSON value is itself a string (text)
Bodies ==
    {[kind |-> "notjson", inner |-> "none", text |-> NoText]}
    \cup {[kind |-> k, inner |-> "str", text |-> t] : k \in {"result", "choices"}, t \in ResponseTexts}
    \cup {[kind |-> k, inner |-> i, text |-> NoText] :
             k \in {"result", "choices"}, i \in {"missing", "nonstr", "notdict"}}
    \cup {[kind |-> "choices", inner |-> "empty", text |-> NoText]}
    \cup {[kind |-> "other", inner |-> "none", text |-> <<"{", "}">>]}
    \cup {[kind |-> "jsonstr", inner |-> "none", text |-> t] : t \in ResponseTexts}

NoBody == [kind |-> "notjson", inner |-> "none", text |-> NoText]

\* what requests.post does: raises (timeout, connection error) or answers
PostOutcomes ==
    {[exc |-> e, status |-> 0, body |-> NoBody] : e \in {"timeout", "connection"}}
    \cup {[exc |-> "none", status |-> st, body |-> b] : st \in {200, 500}, b \in Bodies}

NoResponse == [exc |-> "none", status |-> 0, body |-> NoBody]

Contains(s, p) == CountSub(s, p) > 0

KeyResult  == <<"r", "e", "s", "u", "l", "t">>
KeyChoices == <<"c", "h", "o", "i", "c", "e", "s">>

\* lines 100-108: the text taken from the decoded body, or an exception
ExtractText(body) ==
    CASE body.kind = "notjson" -> [raised |-> TRUE, text |-> NoText]
      [] body.kind \in {"result", "choices"} ->
            IF body.inner = "str" THEN [raised |-> FALSE, text |-> body.text]
            ELSE IF body.inner = "missing" THEN [raised |-> FALSE, text |-> NoText]
            ELSE [raised |-> TRUE, text |-> NoText]
      [] body.kind = "other" -> [raised |-> FALSE, text |-> body.text]
      [] body.kind = "jsonstr" ->
            IF Contains(body.text, KeyResult) \/ Contains(body.text, KeyChoices)
            THEN [raised |-> TRUE, text |-> NoText]
            ELSE [raised |-> FALSE, text |-> body.text]

\* line 111: html_content.replace("```html", "").replace("```", "").strip()
Clean(text) == Strip(Remove(Remove(text, FenceHtml), Fence))

Accepted_NonEmpty(html_content) == html_content # <<>>

\* line 113
Accepted(html_content) == html_content # <<>> /\ StartsWith(html_content, Marker)

Returned(html, via) == [kind |-> "return", html |-> html, via |-> via]
Raised == [kind |-> "raise", html |-> <<>>, via |-> "none"]
NoResult == [kind |-> "none", html |-> <<>>, via |-> "none"]

\* lines 99-122: the try body after requests.post has answered
TryBody(resp, md, title) ==
    IF resp.exc # "none" THEN Raised
    ELSE IF resp.status = 200
    THEN LET got == ExtractText(resp.body) IN
         IF got.raised THEN Raised
         ELSE LET html_content == Clean(got.text) IN
              IF Accepted(html_content)
              THEN Returned(html_content, "service")
              ELSE Returned(_fallback_html(md, title), "fallback")
    ELSE \* response.json().get('errorMsg', response.text)
         IF resp.body.kind \in {"notjson", "jsonstr"} THEN Raised
         ELSE Returned(_fallback_html(md, title), "fallback")

ExceptHandler_Propagate(r, md, title) == r

\* lines 124-126: except Exception -> fallback
ExceptHandler(r, md, title) ==
    IF r.kind = "raise" THEN Returned(_fallback_html(md, title), "fallback") ELSE r

----------------------------------------------------------------------------
(* Page records: PaddleOCRExtractor.extract_from_pdf, lines 93-136 *)

\* a value stored under a key of a page: absent key, a str, or another type
Absent    == [tag |-> "absent", v |-> <<>>]
Str(t)    == [tag |-> "str", v |-> t]
NonStr    == [tag |-> "nonstr", v |-> <<>>]

\* a page of the content list. kind "dict" is a mapping with the keys whose
\* value is not Absent; kind "int" is a value with no membership test (a
\* number, None); kind "str" is a Python str, whose text is s.
DictPage(n, md, tx, err, chars, lns) ==
    [kind |-> "dict", page_number |-> n, markdown |-> md, text |-> tx, error |-> err,
     char_count |-> chars, line_count |-> lns, s |-> <<>>]
IntPage    == [kind |-> "int", page_number |-> 0, markdown |-> Absent, text |-> Absent,
               error |-> Absent, char_count |-> 0, line_count |-> 0, s |-> <<>>]
StrPage(t) == [kind |-> "str", page_number |-> 0, markdown |-> Absent, text |-> Absent,
               error |-> Absent, char_count |-> 0, line_count |-> 0, s |-> t]

\* [l.strip() for l in markdown_text.split('\n') if l.strip()]
RECURSIVE NonBlank(_)
NonBlank(ls) ==
    IF ls = <<>> THEN <<>>
    ELSE (IF Strip(ls[1]) # <<>> THEN <<Strip(ls[1])>> ELSE <<>>) \o NonBlank(Tail(ls))

\* one element of layoutParsingResults:
\*   ok          page_result["markdown"]["text"] is the str text
\*   nomarkdown  no "markdown" key (or no "text" in it): the defaults give ""
\*   bad         page_result or its markdown is no mapping: the page's try fails
PageResults ==
    {[kind |-> "ok", text |-> t] : t \in {<<"A">>, <<"B">>, <<"C">>, <<>>}}
    \cup {[kind |-> "nomarkdown", text |-> <<>>], [kind |-> "bad", text |-> <<>>]}

\* lines 98-134: the record of page page_num
ExtractPage(page_num, page_result) ==
    IF page_result.kind = "bad"
    THEN DictPage(page_num, Absent, Str(<<>>), Str(<<"e">>), 0, 0)
    ELSE LET markdown_text == page_result.text IN
         DictPage(page_num, Str(markdown_text), Str(markdown_text), Absent,
                  Len(markdown_text), Len(NonBlank(Split(markdown_text, NL))))

\* the records of the pages whose processing did not fail
RECURSIVE GoodPages(_, _)
GoodPages(layout_results, page_num) ==
    IF layout_results = <<>> THEN <<>>
    ELSE (IF layout_results[1].kind = "bad" THEN <<>>
          ELSE <<ExtractPage(page_num, layout_results[1])>>)
         \o GoodPages(Tail(layout_results), page_num + 1)

ExtractPages_DropFailed(layout_results) == GoodPages(layout_results, 1)

\* lines 93-136: for page_num, page_result in enumerate(layout_results, 1)
ExtractPages(layout_results) ==
    [i \in 1..Len(layout_results) |-> ExtractPage(i, layout_results[i])]

----------------------------------------------------------------------------
(* The external extraction service, as extract_from_pdf sees it *)

\* response.json() of the layout-parsing answer:
\*   notjson    json() raises
\*   noresult   a dict without the key "result"
\*   notdict    "result" is no dict (null, a list)
\*   nolayout   result has no "layoutParsingResults": .get gives []
\*   notlist    layoutParsingResults is a number: enumerate raises
\*   layout     layoutParsingResults is the list layout, which may be empty
OcrPayload(kind, layout) == [kind |-> kind, layout |-> layout]

NoPayload == OcrPayload("notjson", <<>>)

NoOcrResponse == [exc |-> "none", status |-> 0, payload |-> NoPayload]

ExtReturned(pages) == [kind |-> "return", pages |-> pages, msg |-> "none"]
ExtRaised(msg)     == [kind |-> "raise", pages |-> <<>>, msg |-> msg]
ExtNone            == [kind |-> "none", pages |-> <<>>, msg |-> "none"]

\* lines 66-136: the try body; a raise carries the class of its exception
ExtractTryBody(resp) ==
    IF resp.exc # "none" THEN ExtRaised(resp.exc)
    ELSE IF resp.status # 200 THEN ExtRaised("Exception")
    ELSE IF resp.payload.kind # "layout" \/ resp.payload.layout = <<>>
    THEN ExtRaised("Exception")
    ELSE ExtReturned(ExtractPages(resp.payload.layout))

ExtractExcept_Swallow(r) ==
    IF r.kind = "raise" THEN ExtReturned(<<>>) ELSE r

\* lines 138-143: every exception leaves as a new Exception with a message
ExtractExcept(r) ==
    IF r.kind # "raise" THEN r
    ELSE IF r.msg = "Timeout" THEN ExtRaised("API request timeout")
    ELSE IF r.msg = "ConnectionError" THEN ExtRaised("Connection error")
    ELSE ExtRaised("API extraction failed")

\* requests.post calls of one extract_from_pdf: none before the guard at
\* line 37 and the file read at lines 46-48 have passed
OcrPosts(avail, readable) == IF avail /\ readable THEN 1 ELSE 0

\* extract_from_pdf as a whole, lines 32-143
extract_from_pdf(avail, readable, resp) ==
    IF ~avail THEN ExtRaised("not configured")
    ELSE IF ~readable THEN ExtRaised("OSError")
    ELSE ExtractExcept(ExtractTryBody(resp))

----------------------------------------------------------------------------
(* Markdown assembler: MarkdownConverter.convert_content *)

Separator_Short == <<NL, "-", "-", "-", NL>>

\* "\n\n---\n\n"
Separator == <<NL, NL, "-", "-", "-", NL, NL>>

KeyMarkdown == <<"m", "a", "r", "k", "d", "o", "w", "n">>
KeyText     == <<"t", "e", "x", "t">>

Take(frag)  == [act |-> "append", frag |-> frag]
Skip        == [act |-> "skip", frag |-> Absent]
TypeError   == [act |-> "raise", frag |-> Absent]

SelectFragment_TextFirst(page) ==
    IF page.text.tag # "absent" THEN Take(page.text)
    ELSE IF page.markdown.tag # "absent" THEN Take(page.markdown)
    ELSE Skip

SelectFragment_Truthy(page) ==
    IF page.markdown.tag # "absent" /\ page.markdown.v # <<>> THEN Take(page.markdown)
    ELSE IF page.text.tag # "absent" /\ page.text.v # <<>> THEN Take(page.text)
    ELSE Skip

\* lines 23-26: if 'markdown' in page: ... elif 'text' in page: ...
SelectFragment(page) ==
    CASE page.kind = "dict" ->
            IF page.markdown.tag # "absent" THEN Take(page.markdown)
            ELSE IF page.text.tag # "absent" THEN Take(page.text)
            ELSE Skip
      [] page.kind = "int" -> TypeError        \* 'markdown' in 5
      [] page.kind = "str" ->                  \* substring test, then page['markdown']
            IF Contains(page.s, KeyMarkdown) \/ Contains(page.s, KeyText)
            THEN TypeError ELSE Skip

Collected(lines) == [raised |-> FALSE, lines |-> lines]
CollectRaised    == [raised |-> TRUE, lines |-> <<>>]

RECURSIVE CollectFrom(_, _)
CollectFrom(pages, acc) ==
    IF pages = <<>> THEN Collected(acc)
    ELSE LET sel == SelectFragment(pages[1]) IN
         IF sel.act = "raise" THEN CollectRaised
         ELSE CollectFrom(Tail(pages), IF sel.act = "append" THEN Append(acc, sel.frag) ELSE acc)

RECURSIVE CollectBackwards(_, _)
CollectBackwards(pages, acc) ==
    IF pages = <<>> THEN Collected(acc)
    ELSE LET sel == SelectFragment(pages[1]) IN
         IF sel.act = "raise" THEN CollectRaised
         ELSE CollectBackwards(Tail(pages), IF sel.act = "append" THEN <<sel.frag>> \o acc ELSE acc)

CollectFragments_Prepend(c) ==
    IF c.kind = "list" THEN CollectBackwards(c.pages, <<>>) ELSE Collected(<<>>)

CollectFragments_NoListCheck(c) ==
    IF c.kind = "list" THEN CollectFrom(c.pages, <<>>) ELSE CollectRaised

\* lines 18-26: markdown_lines = []; if isinstance(content, list): for page in content
CollectFragments(c) ==
    IF c.kind = "list" THEN CollectFrom(c.pages, <<>>) ELSE Collected(<<>>)

ConvReturned(t) == [kind |-> "return", value |-> t]
ConvRaised      == [kind |-> "raise", value |-> <<>>]
ConvNone        == [kind |-> "none", value |-> <<>>]

\* line 28: "\n\n---\n\n".join(markdown_lines); a non-str item is a TypeError
JoinFragments(lines) ==
    IF \E i \in 1..Len(lines) : lines[i].tag # "str" THEN ConvRaised
    ELSE ConvReturned(Join([i \in 1..Len(lines) |-> lines[i].v], Separator))

----------------------------------------------------------------------------
(* Front matter: MarkdownConverter.add_metadata *)

\* the "---" that opens and closes the front matter
FrontMatterFence == <<"-", "-", "-">>

KeyTitle  == <<"t", "i", "t", "l", "e">>
KeyAuthor == <<"a", "u", "t", "h", "o", "r">>
KeyDate   == <<"d", "a", "t", "e">>

\* f"{key}: {value}"
KeyLine(key, value) == key \o <<":", " ">> \o value

MetadataLines_AlwaysAuthor(t, a, d) ==
    <<FrontMatterFence>>
    \o (IF t # <<>> THEN <<KeyLine(KeyTitle, t)>> ELSE <<>>)
    \o <<KeyLine(KeyAuthor, a)>>
    \o (IF d # <<>> THEN <<KeyLine(KeyDate, d)>> ELSE <<>>)
    \o <<FrontMatterFence \o <<NL>>>>

\* lines 32-39: metadata = ["---"]; one append per truthy value; append("---\n")
MetadataLines(t, a, d) ==
    <<FrontMatterFence>>
    \o (IF t # <<>> THEN <<KeyLine(KeyTitle, t)>> ELSE <<>>)
    \o (IF a # <<>> THEN <<KeyLine(KeyAuthor, a)>> ELSE <<>>)
    \o (IF d # <<>> THEN <<KeyLine(KeyDate, d)>> ELSE <<>>)
    \o <<FrontMatterFence \o <<NL>>>>

PrependMetadata_BlankLine(lines, body) == Join(lines, <<NL>>) \o <<NL>> \o body

\* line 41: "\n".join(metadata) + markdown_content
PrependMetadata(lines, body) == Join(lines, <<NL>>) \o body

add_metadata(md, t, a, d) == PrependMetadata(MetadataLines(t, a, d), md)

----------------------------------------------------------------------------
(* Markdown inputs of the renderer *)

\* one representative line per branch of the classification, with the
\* near misses of each prefix and text that itself spells a list tag
LineSet ==
    { <<>>,
      <<" ">>,
      <<"a">>,
      <<"#", " ", "a">>,
      <<"#", "#", " ", "a">>,
      <<"#", "#", "#", " ", "a">>,
      <<"#", "#", "#", "#", " ", "a">>,
      <<"-", " ", "a">>,
      <<"-", " ", "b", " ">>,
      <<"-", "a">>,
      <<"-", " ">>,
      <<"#", " ">>,
      <<" ", "-", " ", "a">>,
      <<"#", " ", " ", "a", " ">>,
      <<"<", "u", "l", ">">>,
      <<"-", " ", "<", "/", "u", "l", ">">> }

RECURSIVE LineLists(_)
LineLists(n) ==
    IF n = 0 THEN {<<>>}
    ELSE LET shorter == LineLists(n - 1) IN
         shorter \cup {Append(ls, l) : ls \in {x \in shorter : Len(x) = n - 1}, l \in LineSet}

MarkdownInputs == {Join(ls, <<NL>>) : ls \in LineLists(MaxLines) \ {<<>>}}

\* inputs of repeated invocations: with and without a list, ending inside
\* one, and with lines that hold a marker and whitespace only
RepeatInputs ==
    { <<>>,
      <<" ">>,
      <<"a">>,
      <<"#", " ", "a">>,
      <<"#", "#", "#", " ", "a">>,
      <<"-", " ", "a">>,
      <<"-", " ", "a", NL, "-", " ", "b", " ">>,
      <<"-", " ", "a", NL, NL, "-", " ", "b">>,
      <<"-", " ", "a", NL, "a">>,
      <<"#", "#", " ", "a", NL, "-", " ", "a">>,
      <<"-", " ">>,
      <<"#", " ">>,
      <<"#", "#", " ">>,
      <<"#", "#", "#", " ">>,
      <<"#", " ", "\t">>,
      <<"-", " ", "a", NL, "-", " ">>,
      <<"-", " ", "a", NL, "#", "#", " ">>,
      <<"-", " ", "a", NL, "#", "#", "#", " ", "\r">>,
      <<"-", " ", NL, "-", " ", "a">> }

----------------------------------------------------------------------------
(* Inputs of generate_html *)

GenMarkdowns ==
    { <<"#", " ", "a">>,
      <<"-", " ", "a", NL, "-", " ", "b">>,
      <<>> }

Titles == { <<"T">>, <<"U">> }

Tokens == { <<>>, <<"k">> }

----------------------------------------------------------------------------
(* Contents given to convert_content *)

RECURSIVE ListsOf(_, _)
ListsOf(S, n) ==
    IF n = 0 THEN {<<>>}
    ELSE LET shorter == ListsOf(S, n - 1) IN
         shorter \cup {Append(l, x) : l \in {y \in shorter : Len(y) = n - 1}, x \in S}

ListContent(pages) == [kind |-> "list", pages |-> pages]
\* a value that is no list (None, a dict, a str)
OtherContent == [kind |-> "other", pages |-> <<>>]

\* what extract_from_pdf returns (it raises on an empty layoutParsingResults)
ExtractedContents ==
    {ListContent(ExtractPages(lr)) : lr \in ListsOf(PageResults, MaxPages) \ {<<>>}}

\* pages a JSON file given to convert_from_json can hold
JsonPages ==
    { DictPage(1, Str(<<"A">>), Str(<<"B">>), Absent, 1, 1),
      DictPage(2, Absent, Str(<<"B">>), Absent, 1, 1),
      DictPage(3, Str(<<>>), Absent, Absent, 0, 0),
      DictPage(1, Absent, Absent, Absent, 0, 0),
      DictPage(2, NonStr, Str(<<"B">>), Absent, 1, 1),
      DictPage(3, Str(<<"C">>), NonStr, Absent, 1, 1),
      IntPage,
      StrPage(<<"x">>),
      StrPage(KeyText) }

JsonContents ==
    {ListContent(ps) : ps \in ListsOf(JsonPages, MaxPages)} \cup {OtherContent}

----------------------------------------------------------------------------
(* Answers of the extraction service *)

OcrPayloads ==
    {OcrPayload(k, <<>>) : k \in {"notjson", "noresult", "notdict", "nolayout", "notlist"}}
    \cup {OcrPayload("layout", lr) : lr \in ListsOf(PageResults, MaxPages)}

\* what requests.post does: raises (timeout, connection error) or answers
OcrOutcomes ==
    {[exc |-> e, status |-> 0, payload |-> NoPayload] : e \in {"Timeout", "ConnectionError"}}
    \cup {[exc |-> "none", status |-> st, payload |-> p] : st \in {200, 500}, p \in OcrPayloads}

\* values of an environment variable: unset (getenv gives "") or set
EnvValues == { <<>>, <<"k">> }

----------------------------------------------------------------------------
(* Arguments of add_metadata *)

MetaBodies ==
    { <<>>,
      <<"A">>,
      <<NL, "A">>,
      <<"#", " ", "a", NL, NL, "b">> }

MetaTitles == { <<>>, <<"T">>, <<"m", "y", " ", "d", "o", "c">> }

MetaAuthors == { <<>>, <<"X">> }

MetaDates == { <<>>, <<"2", "0", "2", "4", "-", "0", "1", "-", "0", "1">> }

----------------------------------------------------------------------------
(* The Streamlit app, src/app.py: session state and what its handlers call *)

\* st.session_state after lines 78-87. None is OtherContent for extracted
\* (a value that is no list), Absent for the two texts, "" for the file name.
SessionInit ==
    [step |-> 0, extracted |-> OtherContent, markdown_content |-> Absent,
     html_content |-> Absent, uploaded_file |-> <<>>]

\* bool(x) of a session value
Truthy(x) ==
    IF "kind" \in DOMAIN x THEN x.kind = "list" /\ x.pages # <<>>
    ELSE x.tag = "str" /\ x.v # <<>>

Max(a, b) == IF a >= b THEN a ELSE b

PdfSuffix == <<".", "p", "d", "f">>

\* names of the files a user uploads
AppFiles == { <<"a">> \o PdfSuffix, <<"b">> \o PdfSuffix }

\* uploaded_file.name.replace('.pdf', '')
DefaultTitle(name) == Remove(name, PdfSuffix)

\* author="PDF to Webpage"
AppAuthor == <<"P", "D", "F", " ", "t", "o", " ", "W", "e", "b", "p", "a", "g", "e">>

\* datetime.now().strftime("%Y-%m-%d")
AppDates == { <<"2", "0", "2", "4", "-", "0", "1", "-", "0", "1">> }

\* what the user can leave or type in the "Page Title" input
AppTitles(name) == { DefaultTitle(name), <<"T">> }

\* layoutParsingResults of the answers the app gets for its uploads
AppLayouts ==
    { <<[kind |-> "ok", text |-> <<"A">>]>>,
      <<[kind |-> "ok", text |-> <<"#", " ", "a">>], [kind |-> "bad", text |-> <<>>],
        [kind |-> "ok", text |-> <<"B">>]>> }

AppOcrOutcomes ==
    {[exc |-> e, status |-> 0, payload |-> NoPayload] : e \in {"Timeout", "ConnectionError"}}
    \cup {[exc |-> "none", status |-> 500, payload |-> OcrPayload(k, <<>>)] :
              k \in {"notjson", "noresult"}}
    \cup {[exc |-> "none", status |-> 200, payload |-> OcrPayload(k, <<>>)] :
              k \in {"notjson", "noresult", "notdict", "nolayout", "notlist", "layout"}}
    \cup {[exc |-> "none", status |-> 200, payload |-> OcrPayload("layout", lr)] :
              lr \in AppLayouts}

AppPostOutcomes ==
    { [exc |-> "timeout", status |-> 0, body |-> NoBody],
      [exc |-> "none", status |-> 200,
       body |-> [kind |-> "result", inner |-> "str", text |-> Marker \o <<"x">>]],
      [exc |-> "none", status |-> 500,
       body |-> [kind |-> "other", inner |-> "none", text |-> <<"{", "}">>]] }

\* what a handler called: requests.post calls made, the answer of the
\* extraction service, and how extract_from_pdf ended
Stage(ocr, resp, r, ernie) ==
    [ocr_posts |-> ocr, ocr_response |-> resp, extract |-> r, ernie_posts |-> ernie]

NoStage == Stage(0, NoOcrResponse, ExtNone, 0)

\* MarkdownConverter.convert_content as a whole, lines 16-28
convert_content(c) ==
    LET got == CollectFragments(c) IN
    IF got.raised THEN ConvRaised ELSE JoinFragments(got.lines)

\* ERNIEHTMLGenerator(access_token).generate_html(md, t) as a whole, with
\* access_token = os.getenv("BAIDU_ACCESS_TOKEN", "")
generate_html(tok, resp, md, t) ==
    IF tok = <<>> THEN Returned(_fallback_html(md, t), "fallback")
    ELSE ExceptHandler(TryBody(resp, md, t), md, t)

----------------------------------------------------------------------------
(* The state of a component while another one is exercised *)

\* the generator part of the state while another component is exercised
GenIdle ==
    /\ arg_token = <<>>
    /\ env_token = <<>>
    /\ access_token = <<>>
    /\ available = FALSE
    /\ page_title = <<>>
    /\ gen_pc = "idle"
    /\ requests = 0
    /\ response = NoResponse
    /\ gen_result = NoResult
    /\ calls = <<>>

\* the assembler part of the state while another component is exercised
ConvIdle ==
    /\ content = OtherContent
    /\ origin = "none"
    /\ markdown_lines = <<>>
    /\ conv_result = ConvNone
    /\ conv_pc = "idle"

\* the front-matter part of the state while another component is exercised
MetaIdle ==
    /\ meta_body = <<>>
    /\ meta_title = <<>>
    /\ meta_author = <<>>
    /\ meta_date = <<>>
    /\ metadata = <<>>
    /\ meta_result = <<>>
    /\ meta_pc = "idle"

\* the extractor part of the state while another component is exercised
ExtIdle ==
    /\ api_url = <<>>
    /\ token = <<>>
    /\ ocr_available = FALSE
    /\ ocr_requests = 0
    /\ ocr_response = NoOcrResponse
    /\ ext_result = ExtNone
    /\ ext_pc = "idle"

\* the app part of the state while a component is exercised on its own
AppIdle ==
    /\ uploaded_file = <<>>
    /\ session_state = SessionInit
    /\ environ = [BAIDU_ACCESS_TOKEN |-> <<>>, PADDLEOCR_VL_API_URL |-> <<>>]
    /\ clicked = "idle"
    /\ before = SessionInit
    /\ shown = "none"
    /\ stage = NoStage

----------------------------------------------------------------------------
(* Specification of the renderer: one call on any input *)

InitRender ==
    /\ markdown_content \in MarkdownInputs
    /\ html_lines = <<>>
    /\ renders = <<>>
    /\ render_pc = "start"
    /\ GenIdle
    /\ ConvIdle
    /\ MetaIdle
    /\ ExtIdle
    /\ AppIdle

MarkdownToHtml ==
    /\ render_pc = "start"
    /\ html_lines' = _markdown_to_html(markdown_content)
    /\ render_pc' = "done"
    /\ UNCHANGED <<markdown_content, renders, genVars, convVars, metaVars, extVars, appVars>>

NextRender == MarkdownToHtml

SpecRender == InitRender /\ [][NextRender]_vars

----------------------------------------------------------------------------
(* Specification of repeated rendering: _markdown_to_html called again and again *)

InitRepeat ==
    /\ markdown_content = <<>>
    /\ html_lines = <<>>
    /\ renders = <<>>
    /\ render_pc = "ready"
    /\ GenIdle
    /\ ConvIdle
    /\ MetaIdle
    /\ ExtIdle
    /\ AppIdle

\* one more invocation, lines 135-179, on the input md
MarkdownToHtmlAgain(md) ==
    /\ render_pc \in {"ready", "again"}
    /\ Len(renders) < MaxCalls
    /\ markdown_content' = md
    /\ html_lines' = _markdown_to_html(md)
    /\ renders' = Append(renders, [markdown |-> md, html_lines |-> html_lines'])
    /\ render_pc' = "again"
    /\ UNCHANGED <<genVars, convVars, metaVars, extVars, appVars>>

NextRepeat == \E md \in RepeatInputs : MarkdownToHtmlAgain(md)

SpecRepeat == InitRepeat /\ [][NextRepeat]_vars

----------------------------------------------------------------------------
(* Specification of ERNIEHTMLGenerator: construction and generate_html *)

InitGen ==
    /\ markdown_content = <<>>
    /\ html_lines = <<>>
    /\ renders = <<>>
    /\ render_pc = "idle"
    /\ arg_token \in Tokens
    /\ env_token \in Tokens
    /\ access_token = <<>>
    /\ available = FALSE
    /\ page_title = <<>>
    /\ gen_pc = "new"
    /\ requests = 0
    /\ response = NoResponse
    /\ gen_result = NoResult
    /\ calls = <<>>
    /\ ConvIdle
    /\ MetaIdle
    /\ ExtIdle
    /\ AppIdle

\* __init__: access_token or os.getenv(...); available = bool(access_token)
Construct ==
    /\ gen_pc = "new"
    /\ access_token' = (IF arg_token # <<>> THEN arg_token ELSE env_token)
    /\ available' = (access_token' # <<>>)
    /\ gen_pc' = "ready"
    /\ UNCHANGED <<renderVars, convVars, metaVars, extVars, appVars, arg_token, env_token, page_title, requests,
                   response, gen_result, calls>>

Logged(md, title, r) == Append(calls, [markdown |-> md, title |-> title, html |-> r.html, via |-> r.via])

\* generate_html, lines 35-42: without a credential, straight to the fallback
CallUnavailable(md, title) ==
    /\ gen_pc \in {"ready", "done"}
    /\ Len(calls) < MaxCalls
    /\ ~available
    /\ markdown_content' = md
    /\ page_title' = title
    /\ requests' = 0
    /\ response' = NoResponse
    /\ gen_result' = Returned(_fallback_html(md, title), "fallback")
    /\ calls' = Logged(md, title, gen_result')
    /\ gen_pc' = "done"
    /\ UNCHANGED <<html_lines, render_pc, renders, convVars, metaVars, extVars, appVars, arg_token, env_token, access_token, available>>

\* generate_html, lines 44-88: with a credential, build the request
CallAvailable(md, title) ==
    /\ gen_pc \in {"ready", "done"}
    /\ Len(calls) < MaxCalls
    /\ available
    /\ markdown_content' = md
    /\ page_title' = title
    /\ requests' = 0
    /\ response' = NoResponse
    /\ gen_result' = NoResult
    /\ gen_pc' = "post"
    /\ UNCHANGED <<html_lines, render_pc, renders, convVars, metaVars, extVars, appVars, arg_token, env_token, access_token,
                   available, calls>>

\* lines 90-95: requests.post(...), one blocking call
Post(outcome) ==
    /\ gen_pc = "post"
    /\ requests' = requests + 1
    /\ response' = outcome
    /\ gen_pc' = "response"
    /\ UNCHANGED <<renderVars, convVars, metaVars, extVars, appVars, arg_token, env_token, access_token, available,
                   page_title, gen_result, calls>>

HandleResponse_Retry ==
    /\ gen_pc = "response"
    /\ LET r == ExceptHandler(TryBody(response, markdown_content, page_title),
                              markdown_content, page_title) IN
       IF r.via = "fallback"
       THEN /\ gen_pc' = "post"
            /\ UNCHANGED <<gen_result, calls>>
       ELSE /\ gen_result' = r
            /\ calls' = Logged(markdown_content, page_title, r)
            /\ gen_pc' = "done"
    /\ UNCHANGED <<renderVars, convVars, metaVars, extVars, appVars, arg_token, env_token, access_token, available,
                   page_title, requests, response>>

\* lines 97-126: the rest of the try block and its except clause
HandleResponse ==
    /\ gen_pc = "response"
    /\ gen_result' = ExceptHandler(TryBody(response, markdown_content, page_title),
                                   markdown_content, page_title)
    /\ calls' = Logged(markdown_content, page_title, gen_result')
    /\ gen_pc' = "done"
    /\ UNCHANGED <<renderVars, convVars, metaVars, extVars, appVars, arg_token, env_token, access_token, available,
                   page_title, requests, response>>

NextGen ==
    \/ Construct
    \/ \E md \in GenMarkdowns, title \in Titles : CallUnavailable(md, title)
    \/ \E md \in GenMarkdowns, title \in Titles : CallAvailable(md, title)
    \/ \E outcome \in PostOutcomes : Post(outcome)
    \/ HandleResponse

SpecGen == InitGen /\ [][NextGen]_vars

----------------------------------------------------------------------------
(* Specification of the assembler: convert_content on any content *)

InitConvert ==
    /\ markdown_content = <<>>
    /\ html_lines = <<>>
    /\ renders = <<>>
    /\ render_pc = "idle"
    /\ GenIdle
    /\ \/ content \in ExtractedContents /\ origin = "extract"
       \/ content \in JsonContents /\ origin = "json"
    /\ markdown_lines = <<>>
    /\ conv_result = ConvNone
    /\ conv_pc = "start"
    /\ MetaIdle
    /\ ExtIdle
    /\ AppIdle

\* convert_content, lines 18-26
Collect ==
    /\ conv_pc = "start"
    /\ LET got == CollectFragments(content) IN
       IF got.raised
       THEN /\ conv_pc' = "raised"
            /\ conv_result' = ConvRaised
            /\ UNCHANGED markdown_lines
       ELSE /\ conv_pc' = "collected"
            /\ markdown_lines' = got.lines
            /\ UNCHANGED conv_result
    /\ UNCHANGED <<renderVars, genVars, metaVars, extVars, appVars, content, origin>>

\* convert_content, line 28
JoinLines ==
    /\ conv_pc = "collected"
    /\ conv_result' = JoinFragments(markdown_lines)
    /\ conv_pc' = (IF conv_result'.kind = "raise" THEN "raised" ELSE "done")
    /\ UNCHANGED <<renderVars, genVars, metaVars, extVars, appVars, content, origin, markdown_lines>>

NextConvert == Collect \/ JoinLines

SpecConvert == InitConvert /\ [][NextConvert]_vars

----------------------------------------------------------------------------
(* Specification of the front matter: add_metadata on any arguments *)

InitMeta ==
    /\ markdown_content = <<>>
    /\ html_lines = <<>>
    /\ renders = <<>>
    /\ render_pc = "idle"
    /\ GenIdle
    /\ ConvIdle
    /\ meta_body \in MetaBodies
    /\ meta_title \in MetaTitles
    /\ meta_author \in MetaAuthors
    /\ meta_date \in MetaDates
    /\ metadata = <<>>
    /\ meta_result = <<>>
    /\ meta_pc = "start"
    /\ ExtIdle
    /\ AppIdle

\* add_metadata, lines 32-39
BuildMetadata ==
    /\ meta_pc = "start"
    /\ metadata' = MetadataLines(meta_title, meta_author, meta_date)
    /\ meta_pc' = "built"
    /\ UNCHANGED <<renderVars, genVars, convVars, extVars, appVars,
                   meta_body, meta_title, meta_author, meta_date, meta_result>>

\* add_metadata, line 41
JoinMetadata ==
    /\ meta_pc = "built"
    /\ meta_result' = PrependMetadata(metadata, meta_body)
    /\ meta_pc' = "done"
    /\ UNCHANGED <<renderVars, genVars, convVars, extVars, appVars,
                   meta_body, meta_title, meta_author, meta_date, metadata>>

NextMeta == BuildMetadata \/ JoinMetadata

SpecMeta == InitMeta /\ [][NextMeta]_vars

----------------------------------------------------------------------------
(* Specification of PaddleOCRExtractor: construction and extract_from_pdf *)

InitExtract ==
    /\ markdown_content = <<>>
    /\ html_lines = <<>>
    /\ renders = <<>>
    /\ render_pc = "idle"
    /\ GenIdle
    /\ ConvIdle
    /\ MetaIdle
    /\ api_url \in EnvValues
    /\ token \in EnvValues
    /\ ocr_available = FALSE
    /\ ocr_requests = 0
    /\ ocr_response = NoOcrResponse
    /\ ext_result = ExtNone
    /\ ext_pc = "new"
    /\ AppIdle

\* __init__, lines 21-24: available = bool(api_url and token)
ConstructExtractor ==
    /\ ext_pc = "new"
    /\ ocr_available' = (api_url # <<>> /\ token # <<>>)
    /\ ext_pc' = "ready"
    /\ UNCHANGED <<renderVars, genVars, convVars, metaVars, appVars,
                   api_url, token, ocr_requests, ocr_response, ext_result>>

\* extract_from_pdf, lines 37-41: not configured, raise before anything else
ExtractUnconfigured ==
    /\ ext_pc = "ready"
    /\ ~ocr_available
    /\ ext_result' = extract_from_pdf(FALSE, TRUE, NoOcrResponse)
    /\ ext_pc' = "done"
    /\ UNCHANGED <<renderVars, genVars, convVars, metaVars, appVars,
                   api_url, token, ocr_available, ocr_requests, ocr_response>>

\* extract_from_pdf, lines 46-48: open and read the file, outside the try
ReadPdf(readable) ==
    /\ ext_pc = "ready"
    /\ ocr_available
    /\ IF readable
       THEN ext_pc' = "post" /\ UNCHANGED ext_result
       ELSE ext_pc' = "done" /\ ext_result' = extract_from_pdf(TRUE, FALSE, NoOcrResponse)
    /\ UNCHANGED <<renderVars, genVars, convVars, metaVars, appVars,
                   api_url, token, ocr_available, ocr_requests, ocr_response>>

\* lines 68-73: requests.post(...), one blocking call
OcrPost(outcome) ==
    /\ ext_pc = "post"
    /\ ocr_requests' = ocr_requests + 1
    /\ ocr_response' = outcome
    /\ ext_pc' = "response"
    /\ UNCHANGED <<renderVars, genVars, convVars, metaVars, appVars,
                   api_url, token, ocr_available, ext_result>>

\* lines 75-143: the rest of the try block and its except clauses
HandleOcrResponse ==
    /\ ext_pc = "response"
    /\ ext_result' = ExtractExcept(ExtractTryBody(ocr_response))
    /\ ext_pc' = "done"
    /\ UNCHANGED <<renderVars, genVars, convVars, metaVars, appVars,
                   api_url, token, ocr_available, ocr_requests, ocr_response>>

NextExtract ==
    \/ ConstructExtractor
    \/ ExtractUnconfigured
    \/ \E readable \in BOOLEAN : ReadPdf(readable)
    \/ \E outcome \in OcrOutcomes : OcrPost(outcome)
    \/ HandleOcrResponse

SpecExtract == InitExtract /\ [][NextExtract]_vars

----------------------------------------------------------------------------
(* Specification of the app: one session, one handler per step *)

InitApp ==
    /\ markdown_content = <<>>
    /\ html_lines = <<>>
    /\ renders = <<>>
    /\ render_pc = "idle"
    /\ GenIdle
    /\ ConvIdle
    /\ MetaIdle
    /\ ExtIdle
    /\ uploaded_file = <<>>
    /\ session_state = SessionInit
    /\ environ \in [BAIDU_ACCESS_TOKEN : EnvValues, PADDLEOCR_VL_API_URL : EnvValues]
    /\ clicked = "none"
    /\ before = SessionInit
    /\ shown = "none"
    /\ stage = NoStage

\* lines 159-170: a file is chosen in the uploader
Upload(name) ==
    /\ uploaded_file' = name
    /\ session_state' = [session_state EXCEPT !.uploaded_file = name]
    /\ clicked' = "upload"
    /\ before' = session_state
    /\ shown' = "none"
    /\ stage' = NoStage
    /\ UNCHANGED <<renderVars, genVars, convVars, metaVars, extVars, environ>>

\* line 159-161: the uploader is emptied; the session keeps the old file
ClearUpload ==
    /\ uploaded_file # <<>>
    /\ uploaded_file' = <<>>
    /\ clicked' = "clear"
    /\ before' = session_state
    /\ shown' = "none"
    /\ stage' = NoStage
    /\ UNCHANGED <<renderVars, genVars, convVars, metaVars, extVars, environ, session_state>>

Extract_NoGuard(readable, outcome) ==
    /\ uploaded_file # <<>>
    /\ clicked' = "extract"
    /\ before' = session_state
    /\ LET extracted == extract_from_pdf(TRUE, readable, outcome) IN
       /\ stage' = Stage(OcrPosts(TRUE, readable),
                         IF readable THEN outcome ELSE NoOcrResponse, extracted, 0)
       /\ IF extracted.kind = "raise"
          THEN /\ shown' = "error"
               /\ UNCHANGED session_state
          ELSE /\ shown' = "success"
               /\ session_state' = [session_state EXCEPT
                                       !.extracted = ListContent(extracted.pages),
                                       !.step = Max(@, 1)]
    /\ UNCHANGED <<renderVars, genVars, convVars, metaVars, extVars, environ, uploaded_file>>

Extract_ResetsLater(readable, outcome) ==
    /\ uploaded_file # <<>>
    /\ clicked' = "extract"
    /\ before' = session_state
    /\ LET avail == environ.PADDLEOCR_VL_API_URL # <<>> /\ environ.BAIDU_ACCESS_TOKEN # <<>> IN
       IF ~avail
       THEN /\ shown' = "error"
            /\ stage' = NoStage
            /\ UNCHANGED session_state
       ELSE LET extracted == extract_from_pdf(avail, readable, outcome) IN
            /\ stage' = Stage(OcrPosts(avail, readable),
                              IF readable THEN outcome ELSE NoOcrResponse, extracted, 0)
            /\ IF extracted.kind = "raise"
               THEN /\ shown' = "error"
                    /\ UNCHANGED session_state
               ELSE /\ shown' = "success"
                    /\ session_state' = [session_state EXCEPT
                                            !.extracted = ListContent(extracted.pages),
                                            !.markdown_content = Absent,
                                            !.html_content = Absent,
                                            !.step = 1]
    /\ UNCHANGED <<renderVars, genVars, convVars, metaVars, extVars, environ, uploaded_file>>

\* lines 212-231: the handler of btn_extract
Extract(readable, outcome) ==
    /\ uploaded_file # <<>>
    /\ clicked' = "extract"
    /\ before' = session_state
    /\ LET avail == environ.PADDLEOCR_VL_API_URL # <<>> /\ environ.BAIDU_ACCESS_TOKEN # <<>> IN
       IF ~avail
       THEN /\ shown' = "error"
            /\ stage' = NoStage
            /\ UNCHANGED session_state
       ELSE LET extracted == extract_from_pdf(avail, readable, outcome) IN
            /\ stage' = Stage(OcrPosts(avail, readable),
                              IF readable THEN outcome ELSE NoOcrResponse, extracted, 0)
            /\ IF extracted.kind = "raise"
               THEN /\ shown' = "error"
                    /\ UNCHANGED session_state
               ELSE /\ shown' = "success"
                    /\ session_state' = [session_state EXCEPT
                                            !.extracted = ListContent(extracted.pages),
                                            !.step = Max(@, 1)]
    /\ UNCHANGED <<renderVars, genVars, convVars, metaVars, extVars, environ, uploaded_file>>

Convert_Ungated(today) ==
    /\ uploaded_file # <<>>
    /\ clicked' = "convert"
    /\ before' = session_state
    /\ stage' = NoStage
    /\ LET markdown == convert_content(session_state.extracted) IN
       IF markdown.kind = "raise"
       THEN /\ shown' = "error"
            /\ UNCHANGED session_state
       ELSE /\ shown' = "success"
            /\ session_state' = [session_state EXCEPT
                    !.markdown_content =
                        Str(add_metadata(markdown.value, DefaultTitle(uploaded_file),
                                         AppAuthor, today)),
                    !.step = Max(@, 2)]
    /\ UNCHANGED <<renderVars, genVars, convVars, metaVars, extVars, environ, uploaded_file>>

\* lines 234-255: the handler of btn_convert
Convert(today) ==
    /\ uploaded_file # <<>>
    /\ Truthy(session_state.extracted)
    /\ clicked' = "convert"
    /\ before' = session_state
    /\ stage' = NoStage
    /\ LET markdown == convert_content(session_state.extracted) IN
       IF markdown.kind = "raise"
       THEN /\ shown' = "error"
            /\ UNCHANGED session_state
       ELSE /\ shown' = "success"
            /\ session_state' = [session_state EXCEPT
                    !.markdown_content =
                        Str(add_metadata(markdown.value, DefaultTitle(uploaded_file),
                                         AppAuthor, today)),
                    !.step = Max(@, 2)]
    /\ UNCHANGED <<renderVars, genVars, convVars, metaVars, extVars, environ, uploaded_file>>

\* lines 258-324: the handler of btn_generate
Generate(t, outcome) ==
    /\ uploaded_file # <<>>
    /\ Truthy(session_state.markdown_content)
    /\ clicked' = "generate"
    /\ before' = session_state
    /\ LET access_token_ == environ.BAIDU_ACCESS_TOKEN
           html == generate_html(access_token_, outcome, session_state.markdown_content.v, t) IN
       /\ stage' = Stage(0, NoOcrResponse, ExtNone, IF access_token_ # <<>> THEN 1 ELSE 0)
       /\ shown' = "success"
       /\ session_state' = [session_state EXCEPT
                               !.html_content = Str(html.html),
                               !.step = Max(@, 3)]
    /\ UNCHANGED <<renderVars, genVars, convVars, metaVars, extVars, environ, uploaded_file>>

NextApp ==
    \/ \E name \in AppFiles : Upload(name)
    \/ ClearUpload
    \/ \E readable \in BOOLEAN, outcome \in AppOcrOutcomes : Extract(readable, outcome)
    \/ \E today \in AppDates : Convert(today)
    \/ \E t \in AppTitles(uploaded_file), outcome \in AppPostOutcomes : Generate(t, outcome)

SpecApp == InitApp /\ [][NextApp]_vars

----------------------------------------------------------------------------
(* The components together: a behaviour exercises one of them *)

Init == InitRender \/ InitRepeat \/ InitGen \/ InitConvert \/ InitMeta \/ InitExtract \/ InitApp

Next == NextRender \/ NextRepeat \/ NextGen \/ NextConvert \/ NextMeta \/ NextExtract \/ NextApp

Spec == Init /\ [][Next]_vars

----------------------------------------------------------------------------
(* Claims about the renderer, under SpecRender *)

\* number of elements of the list xs equal to x
RECURSIVE CountElem(_, _)
CountElem(xs, x) ==
    IF xs = <<>> THEN 0
    ELSE (IF xs[1] = x THEN 1 ELSE 0) + CountElem(Tail(xs), x)

\* C1 (as amended): for every markdown input, the list returned by
\* _markdown_to_html holds exactly as many "<ul>" lines as "</ul>" lines,
\* also when the input ends inside a list (the close is then the last line).
C1_ListTagsBalanced ==
    render_pc = "done" =>
        /\ CountElem(html_lines, UlOpen) = CountElem(html_lines, UlClose)
        /\ (RenderLines(RenderStart, Split(markdown_content, NL)).in_list
               => html_lines[Len(html_lines)] = UlClose)

\* "- a\n- b " ends inside a list: the close tag follows the last item
C1_Witness ==
    /\ render_pc = "done"
    /\ markdown_content = <<"-", " ", "a", NL, "-", " ", "b", " ">>
    /\ html_lines = <<UlOpen, Li(<<"a">>), Li(<<"b">>), UlClose>>

\* C1 as stated: the emitted fragment contains as many "<ul>" as "</ul>"
C1_FragmentTagsBalanced ==
    render_pc = "done" =>
        CountSub(Join(html_lines, <<NL>>), UlOpen) = CountSub(Join(html_lines, <<NL>>), UlClose)

----------------------------------------------------------------------------
(* Claims about the classification of lines, under SpecRender *)

\* the lines the loop classifies: the input split on "\n", each rstripped
InputLines ==
    LET raw == Split(markdown_content, NL) IN [i \in 1..Len(raw) |-> Rstrip(raw[i])]

\* number of "#" characters a line begins with
RECURSIVE Hashes(_)
Hashes(s) == IF s # <<>> /\ s[1] = "#" THEN 1 + Hashes(Tail(s)) ELSE 0

\* k if the line begins with exactly k hashes, k in 1..3, and then a space; else 0
HeadingLevel(line) ==
    LET k == Hashes(line) IN
    IF k \in 1..3 /\ Len(line) > k /\ line[k + 1] = " " THEN k ELSE 0

IsItemLine(line) == Len(line) >= 2 /\ line[1] = "-" /\ line[2] = " "

IsOtherLine(line) == line # <<>> /\ HeadingLevel(line) = 0 /\ ~IsItemLine(line)

\* the heading element of level k around the trimmed remainder of the line
HeadingOf(line) ==
    LET k == HeadingLevel(line) IN
    Element(<<"h", <<"1", "2", "3">>[k]>>, Strip(DropFirst(line, k + 1)))

IsHeadingElem(e) == StartsWith(e, <<"<", "h">>)
IsLiElem(e)      == StartsWith(e, <<"<", "l", "i", ">">>)
IsPElem(e)       == StartsWith(e, <<"<", "p", ">">>)

\* the element at position j of the output follows a closed list or no list
AfterClosedList(j) == j > 1 => (~IsLiElem(html_lines[j - 1]) /\ html_lines[j - 1] # UlOpen)

\* the elements expected of the lines that satisfy Is, in line order
Expected(lines, Is(_), Of(_)) ==
    LET chosen == SelectSeq(lines, Is) IN [i \in 1..Len(chosen) |-> Of(chosen[i])]

IsHeadingLine(line) == HeadingLevel(line) > 0

\* number of maximal runs of consecutive "- " lines in the input
ItemRuns ==
    LET lines == InputLines IN
    Cardinality({i \in 1..Len(lines) :
                    IsItemLine(lines[i]) /\ (i = 1 \/ ~IsItemLine(lines[i - 1]))})

\* C13: a line that begins with exactly k hashes (k in 1..3) and a space
\* becomes a heading of level k, never of another level, around the trimmed
\* remainder of the line, after any open list is closed; no line begins
\* with two of the prefixes "# ", "## ", "### ", "- ", so the order of the
\* tests does not change the classification.
C13_HeadingLevelByPrefix ==
    render_pc = "done" =>
        /\ SelectSeq(html_lines, IsHeadingElem) = Expected(InputLines, IsHeadingLine, HeadingOf)
        /\ \A j \in 1..Len(html_lines) : IsHeadingElem(html_lines[j]) => AfterClosedList(j)
        /\ LET lines == InputLines IN
           \A i \in 1..Len(lines) :
              Cardinality({p \in {H1Prefix, H2Prefix, H3Prefix, LiPrefix} :
                              StartsWith(lines[i], p)}) <= 1

\* a list item, then a level-1 heading with padded text, then a level-3 heading
C13_Witness ==
    /\ render_pc = "done"
    /\ markdown_content = <<"-", " ", "a", NL, "#", " ", " ", "a", " ", NL, "#", "#", "#", " ", "a">>
    /\ html_lines = <<UlOpen, Li(<<"a">>), UlClose, H1(<<"a">>), H3(<<"a">>)>>

LiOf(line) == Li(Strip(DropFirst(line, 2)))

\* C14: a run of consecutive "- " lines becomes one list: "<ul>" only
\* before the first item of a run, one "<li>" with the trimmed remainder per
\* line, and one "</ul>" after the last item of the run.
C14_OneListPerRun ==
    render_pc = "done" =>
        /\ SelectSeq(html_lines, IsLiElem) = Expected(InputLines, IsItemLine, LiOf)
        /\ CountElem(html_lines, UlOpen) = ItemRuns
        /\ CountElem(html_lines, UlClose) = ItemRuns
        /\ \A j \in 1..Len(html_lines) :
              /\ IsLiElem(html_lines[j]) =>
                    j > 1 /\ (html_lines[j - 1] = UlOpen \/ IsLiElem(html_lines[j - 1]))
              /\ html_lines[j] = UlOpen => j < Len(html_lines) /\ IsLiElem(html_lines[j + 1])
              /\ html_lines[j] = UlClose => j > 1 /\ IsLiElem(html_lines[j - 1])

\* a paragraph, then the two items "- a" and "- b " in one list
C14_Witness ==
    /\ render_pc = "done"
    /\ markdown_content = <<"a", NL, "-", " ", "a", NL, "-", " ", "b", " ">>
    /\ html_lines = <<P(<<"a">>), UlOpen, Li(<<"a">>), Li(<<"b">>), UlClose>>

NonBlankLines ==
    LET lines == InputLines IN Cardinality({i \in 1..Len(lines) : lines[i] # <<>>})

\* the text between "<p>" and "</p>"
PBody(e) == SubSeq(e, 4, Len(e) - 4)

\* C15: a blank line (empty after rstrip) emits "</ul>" and ends the list
\* when a list is open and emits nothing otherwise: the output holds one
\* line per non-blank input line and an open and a close tag per run of
\* items, a run ends at a blank line, and no paragraph is blank.
C15_BlankLineEndsList ==
    render_pc = "done" =>
        /\ Len(html_lines) = NonBlankLines + 2 * ItemRuns
        /\ CountElem(html_lines, UlClose) = ItemRuns
        /\ \A j \in 1..Len(html_lines) :
              IsPElem(html_lines[j]) => Strip(PBody(html_lines[j])) # <<>>

\* "- a", a blank line, "- b ": two lists
C15_Witness ==
    /\ render_pc = "done"
    /\ markdown_content = <<"-", " ", "a", NL, NL, "-", " ", "b", " ">>
    /\ html_lines = <<UlOpen, Li(<<"a">>), UlClose, UlOpen, Li(<<"b">>), UlClose>>

\* C16: every non-blank line with none of the prefixes closes an open list
\* and becomes one paragraph around the line as it is, unescaped.
C16_OtherLineIsParagraph ==
    render_pc = "done" =>
        /\ SelectSeq(html_lines, IsPElem) = Expected(InputLines, IsOtherLine, P)
        /\ \A j \in 1..Len(html_lines) : IsPElem(html_lines[j]) => AfterClosedList(j)

\* a list item, then the line "<ul>", which has no prefix: a paragraph
C16_Witness ==
    /\ render_pc = "done"
    /\ markdown_content = <<"-", " ", "a", NL, "<", "u", "l", ">">>
    /\ html_lines = <<UlOpen, Li(<<"a">>), UlClose, P(<<"<", "u", "l", ">">>)>>

\* number of "<ul>" lines less the number of "</ul>" lines among the first j
ListDepth(j) ==
    CountElem(SubSeq(html_lines, 1, j), UlOpen) - CountElem(SubSeq(html_lines, 1, j), UlClose)

\* C25: at every point of the output the number of "<ul>" lines less the
\* number of "</ul>" lines is 0 or 1; it is 1 where a "<li>" is emitted and
\* 0 where a heading or a paragraph is emitted.
C25_ListDepthZeroOrOne ==
    render_pc = "done" =>
        LET depth == [j \in 0..Len(html_lines) |-> ListDepth(j)] IN
        \A j \in 1..Len(html_lines) :
            /\ depth[j] \in {0, 1}
            /\ IsLiElem(html_lines[j]) => depth[j - 1] = 1 /\ depth[j] = 1
            /\ (IsHeadingElem(html_lines[j]) \/ IsPElem(html_lines[j])) =>
                  depth[j - 1] = 0 /\ depth[j] = 0

\* a list, a heading outside it, a second list: the depth runs 1 1 0 0 1 1 0
C25_Witness ==
    /\ render_pc = "done"
    /\ markdown_content = <<"-", " ", "a", NL, "#", " ", "a", NL, "-", " ", "a">>
    /\ html_lines = <<UlOpen, Li(<<"a">>), UlClose, H1(<<"a">>), UlOpen, Li(<<"a">>), UlClose>>
    /\ [j \in 1..7 |-> ListDepth(j)] = <<1, 1, 0, 0, 1, 1, 0>>

\* the one element a non-blank line becomes
ElementOf(line) ==
    IF IsHeadingLine(line) THEN HeadingOf(line)
    ELSE IF IsItemLine(line) THEN LiOf(line)
    ELSE P(line)

IsNonBlank(line) == line # <<>>

IsContentElem(e) == IsHeadingElem(e) \/ IsLiElem(e) \/ IsPElem(e)

\* C26: every non-blank line becomes exactly one content element (heading,
\* list item or paragraph) and a blank line none: the content elements of
\* the output are the elements of the non-blank lines, in line order, and
\* every other line of the output is a list tag.
C26_OneElementPerLine ==
    render_pc = "done" =>
        LET elems == SelectSeq(html_lines, IsContentElem) IN
        /\ elems = Expected(InputLines, IsNonBlank, ElementOf)
        /\ Len(elems) = NonBlankLines
        /\ \A j \in 1..Len(html_lines) :
              IsContentElem(html_lines[j]) \/ html_lines[j] \in {UlOpen, UlClose}

\* a heading, a blank line and a paragraph: two elements, in line order
C26_Witness ==
    /\ render_pc = "done"
    /\ markdown_content = <<"#", "#", " ", "a", NL, " ", NL, "-", "a">>
    /\ html_lines = <<H2(<<"a">>), P(<<"-", "a">>)>>
    /\ NonBlankLines = 2

----------------------------------------------------------------------------
(* Claims about repeated rendering, under SpecRepeat *)

Markers == {<<"-">>, <<"#">>, <<"#", "#">>, <<"#", "#", "#">>}

\* the raw line is the marker m followed by whitespace and nothing else
IsMarkerThenSpace(raw, m) ==
    /\ StartsWith(raw, m)
    /\ Len(raw) > Len(m)
    /\ \A k \in Len(m) + 1..Len(raw) : IsSpace(raw[k])

\* position in html_lines of the k-th content element
ContentPos(k) ==
    CHOOSE j \in 1..Len(html_lines) :
        /\ IsContentElem(html_lines[j])
        /\ Cardinality({n \in 1..j : IsContentElem(html_lines[n])}) = k

\* C27: a line that holds only a marker ("-", "#", "##", "###") followed by
\* whitespace is rendered as the paragraph of the bare marker and closes an
\* open list; no list item and no heading of the output is empty.
C27_MarkerOnlyLineIsParagraph ==
    render_pc = "again" =>
        LET raw == Split(markdown_content, NL) IN
        /\ \A i \in 1..Len(raw) : \A m \in Markers :
              IsMarkerThenSpace(raw[i], m) =>
                  LET k == Cardinality({n \in 1..i : Rstrip(raw[n]) # <<>>})
                      j == ContentPos(k)
                  IN /\ k <= Len(SelectSeq(html_lines, IsContentElem))
                     /\ html_lines[j] = P(m)
                     /\ AfterClosedList(j)
                     /\ (i > 1 /\ IsItemLine(Rstrip(raw[i - 1]))) => html_lines[j - 1] = UlClose
        /\ \A j \in 1..Len(html_lines) :
              html_lines[j] \notin {Li(<<>>), H1(<<>>), H2(<<>>), H3(<<>>)}

\* "- a" then "- ": the second line is no item, it closes the list of the first
C27_Witness ==
    /\ render_pc = "again"
    /\ markdown_content = <<"-", " ", "a", NL, "-", " ">>
    /\ html_lines = <<UlOpen, Li(<<"a">>), UlClose, P(<<"-">>)>>
    /\ IsMarkerThenSpace(Split(markdown_content, NL)[2], <<"-">>)

----------------------------------------------------------------------------
(* Claims about generate_html, under SpecGen *)

DocTA == TplHead \o <<"T">> \o TplStyle \o <<"T">> \o TplHeader
         \o <<"<", "h", "1", ">", "a", "<", "/", "h", "1", ">">> \o TplFooter

\* C2: without a credential generate_html makes no request and returns
\* _wrap_with_styling("\n".join(_markdown_to_html(markdown)), title).
C2_NoCredentialFallback ==
    (gen_pc = "done" /\ ~available) =>
        /\ requests = 0
        /\ response = NoResponse
        /\ gen_result.kind = "return"
        /\ gen_result.html =
              _wrap_with_styling(Join(_markdown_to_html(markdown_content), <<NL>>), page_title)

C2_Witness ==
    /\ gen_pc = "done"
    /\ ~available
    /\ arg_token = <<>> /\ env_token = <<>>
    /\ markdown_content = <<"-", " ", "a", NL, "-", " ", "b">>
    /\ page_title = <<"U">>
    /\ gen_result.html = TplHead \o <<"U">> \o TplStyle \o <<"U">> \o TplHeader
                         \o UlOpen \o <<NL>> \o Li(<<"a">>) \o <<NL>> \o Li(<<"b">>)
                         \o <<NL>> \o UlClose \o TplFooter

\* the answer carries no text that, fences removed and trimmed, begins with the marker
TextOf(body) ==
    IF body.kind \in {"other", "jsonstr"} \/ body.inner = "str" THEN body.text ELSE <<>>

Undecodable(body) ==
    \/ body.kind = "notjson"
    \/ body.inner \in {"nonstr", "notdict", "empty"}

CallFailedCleaned(resp) ==
    \/ resp.exc # "none"
    \/ resp.status # 200
    \/ Undecodable(resp.body)
    \/ ~StartsWith(Strip(Remove(Remove(TextOf(resp.body), FenceHtml), Fence)), Marker)

\* the failures as the claim lists them: on the response as received
CallFailedRaw(resp) ==
    \/ resp.exc # "none"
    \/ resp.status # 200
    \/ Undecodable(resp.body)
    \/ resp.body.kind \in {"other", "jsonstr"} \/ resp.body.inner = "missing"
    \/ ~StartsWith(TextOf(resp.body), Marker)

\* C3 (as amended): with a credential, generate_html never raises, and it
\* returns exactly the fallback document whenever the request raises, the
\* status is not 200, the body cannot be decoded, or the text taken from the
\* body, code fences removed and trimmed, does not begin with "<!DOCTYPE".
C3_FailureFallsBack ==
    /\ gen_result.kind # "raise"
    /\ (gen_pc = "done" /\ available /\ CallFailedCleaned(response)) =>
          gen_result = Returned(_wrap_with_styling(Join(_markdown_to_html(markdown_content), <<NL>>),
                                                   page_title), "fallback")

C3_Witness ==
    /\ gen_pc = "done"
    /\ available
    /\ response.exc = "timeout"
    /\ markdown_content = <<"#", " ", "a">>
    /\ page_title = <<"T">>
    /\ gen_result = Returned(DocTA, "fallback")

\* C3 as stated: a response that does not begin with the marker is a failure
C3_RawFailureFallsBack ==
    (gen_pc = "done" /\ available /\ CallFailedRaw(response)) =>
        gen_result = Returned(_wrap_with_styling(Join(_markdown_to_html(markdown_content), <<NL>>),
                                                 page_title), "fallback")

\* C4: an invocation makes at most one request, none without a credential,
\* and no request follows a failed one.
C4_AtMostOneRequest ==
    /\ requests <= 1
    /\ (gen_pc = "post" => requests = 0)
    /\ (~available => requests = 0)

C4_Witness ==
    /\ gen_pc = "done"
    /\ requests = 1
    /\ response.status = 500
    /\ gen_result.via = "fallback"

SameInput(c, d) == c.markdown = d.markdown /\ c.title = d.title

\* C5 (as amended): the document is a function of (markdown, title) alone
\* whenever the fallback produced it (no credential, or a failed call).
C5_FallbackDeterministic ==
    \A i, j \in 1..Len(calls) :
        (SameInput(calls[i], calls[j]) /\ calls[i].via = "fallback" /\ calls[j].via = "fallback")
            => calls[i].html = calls[j].html

\* two failed calls on the same input, one after a timeout, give one document
C5_Witness ==
    /\ Len(calls) = 2
    /\ available
    /\ SameInput(calls[1], calls[2])
    /\ calls[1].markdown = <<"#", " ", "a">> /\ calls[1].title = <<"T">>
    /\ calls[1].via = "fallback" /\ calls[2].via = "fallback"
    /\ response.exc = "timeout"
    /\ calls[1].html = DocTA /\ calls[2].html = DocTA

\* C5 as stated: any two invocations with the same markdown and title agree
C5_DocumentFunctionOfInput ==
    \A i, j \in 1..Len(calls) :
        SameInput(calls[i], calls[j]) => calls[i].html = calls[j].html

----------------------------------------------------------------------------
(* Claims about convert_content, under SpecConvert *)

SepText == <<"\n", "\n", "-", "-", "-", "\n", "\n">>

HasField(pg) == pg.kind = "dict" /\ (pg.markdown.tag # "absent" \/ pg.text.tag # "absent")

\* the value the claims say a page contributes
Chosen(pg) == IF pg.markdown.tag # "absent" THEN pg.markdown ELSE pg.text

AllDicts == content.kind = "list" /\ \A i \in 1..Len(content.pages) : content.pages[i].kind = "dict"

\* how many of the first i pages have a markdown or text field
Pos(i) == Cardinality({k \in 1..i : HasField(content.pages[k])})

\* index in the joined text at which the i-th of the fragments fs begins
RECURSIVE StartOf(_, _)
StartOf(fs, i) == IF i = 1 THEN 1 ELSE StartOf(fs, i - 1) + Len(fs[i - 1].v) + 7

\* C6: the result is the collected fragments in order, with exactly
\* "\n\n---\n\n" between consecutive ones and nothing before or after.
C6_JoinedWithSeparator ==
    conv_pc = "done" =>
        LET fs == markdown_lines
            n  == Len(fs)
            r  == conv_result.value
        IN  /\ conv_result.kind = "return"
            /\ n = 0 => r = <<>>
            /\ n > 0 => Len(r) = StartOf(fs, n) + Len(fs[n].v) - 1
            /\ \A i \in 1..n :
                  SubSeq(r, StartOf(fs, i), StartOf(fs, i) + Len(fs[i].v) - 1) = fs[i].v
            /\ \A i \in 1..(n - 1) :
                  SubSeq(r, StartOf(fs, i) + Len(fs[i].v), StartOf(fs, i + 1) - 1) = SepText

\* three pages with markdown A, B, C
C6_Witness ==
    /\ conv_pc = "done"
    /\ Len(content.pages) = 3
    /\ \A i \in 1..3 : content.pages[i].markdown = Str(<<<<"A">>, <<"B">>, <<"C">>>>[i])
    /\ conv_result = ConvReturned(<<"A">> \o SepText \o <<"B">> \o SepText \o <<"C">>)

\* C7: a page contributes its markdown if it has that key, else its text if
\* it has that key, else nothing: neither a fragment nor a separator.
C7_SelectsMarkdownThenText ==
    (conv_pc \in {"collected", "done"} /\ AllDicts) =>
        /\ Len(markdown_lines) = Pos(Len(content.pages))
        /\ \A i \in 1..Len(content.pages) :
              HasField(content.pages[i]) => markdown_lines[Pos(i)] = Chosen(content.pages[i])
        /\ conv_pc = "done" =>
              conv_result = JoinFragments(
                  CollectFragments(ListContent(SelectSeq(content.pages, HasField))).lines)

\* markdown A with text B, then a page with neither key, then text B alone
C7_Witness ==
    /\ conv_pc = "done"
    /\ content.pages = << DictPage(1, Str(<<"A">>), Str(<<"B">>), Absent, 1, 1),
                          DictPage(1, Absent, Absent, Absent, 0, 0),
                          DictPage(2, Absent, Str(<<"B">>), Absent, 1, 1) >>
    /\ markdown_lines = <<Str(<<"A">>), Str(<<"B">>)>>
    /\ conv_result = ConvReturned(<<"A">> \o SepText \o <<"B">>)

\* C8: n pages that have a markdown or text key give n fragments and
\* n-1 separators, also when a value is the empty string. (The fragments of
\* the model hold no separator text, so separators can be counted.)
C8_EmptyFragmentsKept ==
    (conv_pc = "done" /\ AllDicts) =>
        LET n == Cardinality({i \in 1..Len(content.pages) : HasField(content.pages[i])}) IN
        /\ Len(markdown_lines) = n
        /\ n > 0 => CountSub(conv_result.value, SepText) = n - 1
        /\ n = 0 => conv_result.value = <<>>

\* the record of a failed page (text "", no markdown) between pages A and C
C8_Witness ==
    /\ conv_pc = "done"
    /\ origin = "extract"
    /\ Len(content.pages) = 3
    /\ content.pages[2] = DictPage(2, Absent, Str(<<>>), Str(<<"e">>), 0, 0)
    /\ markdown_lines = <<Str(<<"A">>), Str(<<>>), Str(<<"C">>)>>
    /\ conv_result = ConvReturned(<<"A">> \o SepText \o SepText \o <<"C">>)

\* first index at which f occurs in r (0 when it does not)
IndexOf(r, f) ==
    LET hits == {k \in 1..Len(r) : StartsWith(DropFirst(r, k - 1), f)} IN
    IF hits = {} THEN 0 ELSE CHOOSE k \in hits : \A j \in hits : k <= j

\* page i contributes a non-empty text that no other page contributes
Uniq(i) ==
    /\ HasField(content.pages[i])
    /\ Chosen(content.pages[i]).v # <<>>
    /\ \A j \in 1..Len(content.pages) :
          (j # i /\ HasField(content.pages[j])) =>
              Chosen(content.pages[j]).v # Chosen(content.pages[i]).v

FragIndex(i) == IndexOf(conv_result.value, Chosen(content.pages[i]).v)

\* C9 (as amended): joining preserves the order of the input list: the
\* fragment of an earlier page record precedes that of a later one. For the
\* records extract_from_pdf returns this is the order of page_number.
C9_InputOrderPreserved ==
    (conv_pc = "done" /\ AllDicts) =>
        /\ \A i, j \in 1..Len(content.pages) :
              (i < j /\ Uniq(i) /\ Uniq(j)) =>
                  (FragIndex(i) > 0 /\ FragIndex(i) < FragIndex(j))
        /\ origin = "extract" =>
              \A i, j \in 1..Len(content.pages) :
                  (content.pages[i].page_number < content.pages[j].page_number
                   /\ Uniq(i) /\ Uniq(j)) => FragIndex(i) < FragIndex(j)

\* page 3 (C) listed before page 1 (A): C comes first in the document
C9_Witness ==
    /\ conv_pc = "done"
    /\ origin = "json"
    /\ content.pages = << DictPage(3, Str(<<"C">>), NonStr, Absent, 1, 1),
                          DictPage(1, Str(<<"A">>), Str(<<"B">>), Absent, 1, 1) >>
    /\ conv_result = ConvReturned(<<"C">> \o SepText \o <<"A">>)

\* C9 as stated: for every list of page records, order by page_number
C9_PageNumberOrderPreserved ==
    (conv_pc = "done" /\ AllDicts) =>
        \A i, j \in 1..Len(content.pages) :
            (content.pages[i].page_number < content.pages[j].page_number
             /\ Uniq(i) /\ Uniq(j)) => FragIndex(i) < FragIndex(j)

\* C10 (as amended): convert_content returns "" for a value that is no list
\* and never raises on a list of mappings whose selected values are strings;
\* it raises TypeError on a page with no membership test (a number, None)
\* and on a selected value that is not a string.
C10_RaisesOnlyOnMalformedPages ==
    (conv_pc \in {"done", "raised"}) =>
        /\ content.kind # "list" => conv_result = ConvReturned(<<>>)
        /\ (AllDicts /\ \A i \in 1..Len(content.pages) :
                HasField(content.pages[i]) => Chosen(content.pages[i]).tag = "str")
              => conv_result.kind = "return"
        /\ (content.kind = "list" /\ \E i \in 1..Len(content.pages) : content.pages[i].kind = "int")
              => conv_result.kind = "raise"
        /\ (AllDicts /\ \E i \in 1..Len(content.pages) :
                HasField(content.pages[i]) /\ Chosen(content.pages[i]).tag # "str")
              => conv_result.kind = "raise"

\* a page whose markdown value is not a string: the join raises
C10_Witness ==
    /\ conv_pc = "raised"
    /\ content.pages = << DictPage(1, Str(<<"A">>), Str(<<"B">>), Absent, 1, 1),
                          DictPage(2, NonStr, Str(<<"B">>), Absent, 1, 1) >>
    /\ markdown_lines = <<Str(<<"A">>), NonStr>>
    /\ conv_result = ConvRaised

\* C10 as stated: convert_content never raises
C10_NeverRaises == conv_pc # "raised" /\ conv_result.kind # "raise"

----------------------------------------------------------------------------
(* Claims about add_metadata, under SpecMeta *)

\* the part of the result that add_metadata put before the body
MetaHead == SubSeq(meta_result, 1, Len(meta_result) - Len(meta_body))

\* the part of the result that follows it
MetaTail == SubSeq(meta_result, Len(meta_result) - Len(meta_body) + 1, Len(meta_result))

MetaHeadLines == Split(MetaHead, NL)

MetaFields == { <<KeyTitle, meta_title>>, <<KeyAuthor, meta_author>>, <<KeyDate, meta_date>> }

\* C11: add_metadata emits the line "key: value" for exactly those of
\* title, author and date whose value is non-empty - one line for a
\* non-empty value, no line of that key for an empty one - and the body
\* follows them.
C11_KeyLinesForNonEmptyValues ==
    meta_pc = "done" =>
        /\ \A f \in MetaFields :
              /\ f[2] # <<>> => CountElem(MetaHeadLines, KeyLine(f[1], f[2])) = 1
              /\ f[2] = <<>> => \A i \in 1..Len(MetaHeadLines) :
                                    ~StartsWith(MetaHeadLines[i], f[1] \o <<":">>)
        /\ Cardinality({i \in 1..Len(MetaHeadLines) :
                           \E f \in MetaFields : StartsWith(MetaHeadLines[i], f[1] \o <<":">>)})
              = Cardinality({f \in MetaFields : f[2] # <<>>})
        /\ MetaTail = meta_body

\* title=T, author empty, date=2024-01-01: a title line and a date line only
C11_Witness ==
    /\ meta_pc = "done"
    /\ meta_title = <<"T">> /\ meta_author = <<>>
    /\ meta_date = <<"2", "0", "2", "4", "-", "0", "1", "-", "0", "1">>
    /\ meta_body = <<"A">>
    /\ meta_result = <<"-", "-", "-", NL, "t", "i", "t", "l", "e", ":", " ", "T", NL,
                       "d", "a", "t", "e", ":", " ", "2", "0", "2", "4", "-", "0", "1", "-", "0", "1", NL,
                       "-", "-", "-", NL, "A">>

\* C12 (as amended): the result is an opening "---" line, the key lines, a
\* closing "---" line ended by one newline, and then the body unchanged: the
\* body is a suffix of the result and starts on the line right after the
\* closing "---", with no blank line in between.
C12_BodyFollowsClosingFence ==
    meta_pc = "done" =>
        /\ Len(meta_result) >= Len(meta_body)
        /\ MetaTail = meta_body
        /\ Len(MetaHeadLines) >= 3
        /\ MetaHeadLines[1] = FrontMatterFence
        /\ \A i \in 2..(Len(MetaHeadLines) - 2) :
              \E f \in MetaFields : MetaHeadLines[i] = KeyLine(f[1], f[2])
        /\ MetaHeadLines[Len(MetaHeadLines) - 1] = FrontMatterFence
        /\ MetaHeadLines[Len(MetaHeadLines)] = <<>>

\* no value given: the body "A" starts right after the closing fence
C12_Witness ==
    /\ meta_pc = "done"
    /\ meta_title = <<>> /\ meta_author = <<>> /\ meta_date = <<>>
    /\ meta_body = <<"A">>
    /\ meta_result = <<"-", "-", "-", NL, "-", "-", "-", NL, "A">>

\* C12 as stated: a blank line separates the closing "---" from the body
C12_BlankLineBeforeBody ==
    meta_pc = "done" =>
        /\ MetaTail = meta_body
        /\ Len(MetaHeadLines) >= 4
        /\ MetaHeadLines[1] = FrontMatterFence
        /\ MetaHeadLines[Len(MetaHeadLines) - 2] = FrontMatterFence
        /\ MetaHeadLines[Len(MetaHeadLines) - 1] = <<>>
        /\ MetaHeadLines[Len(MetaHeadLines)] = <<>>

----------------------------------------------------------------------------
(* Claims about the page template, under SpecGen *)

\* the four stretches of a document around the two places of a title of
\* length t and the place of the fragment
Frame(h, t) ==
    LET a1 == Len(TplHead)
        a2 == a1 + t + Len(TplStyle)
        a3 == a2 + t + Len(TplHeader) IN
    << SubSeq(h, 1, a1),
       SubSeq(h, a1 + t + 1, a2),
       SubSeq(h, a2 + t + 1, a3),
       SubSeq(h, Len(h) - Len(TplFooter) + 1, Len(h)) >>

\* what a document holds at the two places of the title and at the place of the fragment
Slots(h, t) ==
    LET a1 == Len(TplHead)
        a2 == a1 + t + Len(TplStyle)
        a3 == a2 + t + Len(TplHeader) IN
    << SubSeq(h, a1 + 1, a1 + t),
       SubSeq(h, a2 + 1, a2 + t),
       SubSeq(h, a3 + 1, Len(h) - Len(TplFooter)) >>

FallbackCalls == {i \in 1..Len(calls) : calls[i].via = "fallback"}

\* C17: a wrapped document is the fixed template with the title in the head
\* and in the header and the fragment, verbatim, in the article; the text
\* around these places is the same for every (fragment, title) pair.
C17_FixedTemplate ==
    /\ (gen_pc = "done" /\ gen_result.via = "fallback") =>
          /\ Slots(gen_result.html, Len(page_title))
                = <<page_title, page_title, Join(_markdown_to_html(markdown_content), <<NL>>)>>
          /\ Frame(gen_result.html, Len(page_title)) = <<TplHead, TplStyle, TplHeader, TplFooter>>
    /\ \A i, j \in FallbackCalls :
          Frame(calls[i].html, Len(calls[i].title)) = Frame(calls[j].html, Len(calls[j].title))

\* two wrapped documents of different titles and fragments
C17_Witness ==
    /\ Len(calls) = 2
    /\ FallbackCalls = {1, 2}
    /\ calls[1].title = <<"T">> /\ calls[1].markdown = <<"#", " ", "a">>
    /\ calls[1].html = DocTA
    /\ calls[2].title = <<"U">> /\ calls[2].markdown = <<"-", " ", "a", NL, "-", " ", "b">>
    /\ calls[2].html # calls[1].html

\* C24: whatever the markdown, the title and the outcome of the request,
\* the string generate_html returns begins with "<!DOCTYPE": the text of the
\* service is returned only when, fences removed and trimmed, it begins with
\* that marker in exactly that case, and it is returned in that cleaned
\* form; otherwise the fallback document is returned, which begins with it.
C24_ResultBeginsWithMarker ==
    /\ gen_pc = "done" =>
          /\ gen_result.kind = "return"
          /\ StartsWith(gen_result.html, Marker)
          /\ gen_result.via = "service" =>
                /\ requests = 1 /\ response.exc = "none" /\ response.status = 200
                /\ gen_result.html = Strip(Remove(Remove(TextOf(response.body), FenceHtml), Fence))
          /\ gen_result.via = "fallback" =>
                gen_result.html = _fallback_html(markdown_content, page_title)
    /\ \A i \in 1..Len(calls) : StartsWith(calls[i].html, Marker)

\* the service answers with the marker in lower case: the fallback is returned
C24_Witness ==
    /\ gen_pc = "done"
    /\ response.status = 200
    /\ response.body = [kind |-> "result", inner |-> "str",
                        text |-> <<"<", "!", "d", "o", "c", "t", "y", "p", "e", "x">>]
    /\ gen_result.via = "fallback"
    /\ StartsWith(gen_result.html, Marker)

----------------------------------------------------------------------------
(* Claims about extract_from_pdf, under SpecExtract *)

\* C19: for an answer with n page results extract_from_pdf returns n page
\* records in order, numbered 1..n; a page whose processing fails gets a
\* record with an error, empty text and zero counts, and every other page
\* is processed as if no page had failed.
C19_OneRecordPerPageResult ==
    (ext_pc = "done" /\ ocr_requests = 1 /\ ocr_response.exc = "none"
       /\ ocr_response.status = 200 /\ ocr_response.payload.kind = "layout"
       /\ ocr_response.payload.layout # <<>>) =>
        LET layout_results == ocr_response.payload.layout
            pages == ext_result.pages IN
        /\ ext_result.kind = "return"
        /\ Len(pages) = Len(layout_results)
        /\ \A i \in 1..Len(pages) :
              /\ pages[i].page_number = i
              /\ IF layout_results[i].kind = "bad"
                 THEN /\ pages[i].error.tag = "str"
                      /\ pages[i].text = Str(<<>>)
                      /\ pages[i].char_count = 0
                      /\ pages[i].line_count = 0
                 ELSE /\ pages[i].error = Absent
                      /\ pages[i].text = Str(layout_results[i].text)
                      /\ pages[i].markdown = Str(layout_results[i].text)
                      /\ pages[i].char_count = Len(layout_results[i].text)

\* three page results, the second of which cannot be processed
C19_Witness ==
    /\ ext_pc = "done"
    /\ ocr_response.payload.layout =
          <<[kind |-> "ok", text |-> <<"A">>], [kind |-> "bad", text |-> <<>>],
            [kind |-> "ok", text |-> <<"B">>]>>
    /\ ext_result.kind = "return"
    /\ Len(ext_result.pages) = 3
    /\ ext_result.pages[2].error = Str(<<"e">>)
    /\ ext_result.pages[3] = DictPage(3, Str(<<"B">>), Str(<<"B">>), Absent, 1, 1)

----------------------------------------------------------------------------
(* Claims about the Extract action of the app, under SpecApp *)

\* the extraction call failed: it raised, answered with another status than
\* 200, or answered with a payload that holds no page results
CallFailed(resp) ==
    \/ resp.exc \in {"Timeout", "ConnectionError"}
    \/ resp.status # 200
    \/ resp.payload.kind \in {"notjson", "noresult", "notdict", "nolayout", "notlist"}
    \/ resp.payload.layout = <<>>

\* the session values are those the handler found
SessionUnchanged ==
    /\ session_state.extracted = before.extracted
    /\ session_state.markdown_content = before.markdown_content
    /\ session_state.html_content = before.html_content
    /\ session_state.step = before.step

\* C18: when the extraction call fails, extract_from_pdf raises and returns
\* no pages, the app shows an error, and extracted, markdown_content,
\* html_content and step are what they were before the click.
C18_FailedExtractionWritesNothing ==
    (clicked = "extract" /\ stage.ocr_posts = 1 /\ CallFailed(stage.ocr_response)) =>
        /\ stage.extract.kind = "raise"
        /\ stage.extract.pages = <<>>
        /\ shown = "error"
        /\ SessionUnchanged

\* a session that has reached step 3, then an extraction that times out
C18_Witness ==
    /\ clicked = "extract"
    /\ stage.ocr_posts = 1
    /\ stage.ocr_response.exc = "Timeout"
    /\ stage.extract = ExtRaised("API request timeout")
    /\ shown = "error"
    /\ before.step = 3
    /\ Truthy(before.html_content)
    /\ session_state = before

Unconfigured == environ.PADDLEOCR_VL_API_URL = <<>> \/ environ.BAIDU_ACCESS_TOKEN = <<>>

\* C20: when the endpoint URL or the credential is missing, the Extract
\* action makes no external call, shows an error and leaves the session
\* state unchanged.
C20_UnconfiguredExtractDoesNotRun ==
    (Unconfigured /\ clicked = "extract") =>
        /\ stage.ocr_posts = 0
        /\ stage.ernie_posts = 0
        /\ stage.extract.kind # "return"
        /\ shown = "error"
        /\ SessionUnchanged
        /\ session_state.extracted = OtherContent

\* the credential is set, the endpoint URL is not: Extract shows an error
C20_Witness ==
    /\ environ.BAIDU_ACCESS_TOKEN # <<>>
    /\ environ.PADDLEOCR_VL_API_URL = <<>>
    /\ uploaded_file # <<>>
    /\ clicked = "extract"
    /\ shown = "error"
    /\ stage = NoStage
    /\ session_state.step = 0

----------------------------------------------------------------------------
(* Claims about the session of the app, under SpecApp *)

\* C22: in every reachable session state html_content set implies
\* markdown_content set, and markdown_content set implies extracted set; so
\* when the downloads are offered (html_content set) each of the three
\* files is built from a set value.
C22_LaterStageImpliesEarlier ==
    /\ Truthy(session_state.html_content) => Truthy(session_state.markdown_content)
    /\ Truthy(session_state.markdown_content) => Truthy(session_state.extracted)
    /\ (session_state.html_content # Absent) => (session_state.markdown_content # Absent)
    /\ (session_state.markdown_content # Absent) => (session_state.extracted # OtherContent)

\* the downloads are offered after a failed extraction that followed a whole run
C22_Witness ==
    /\ uploaded_file # <<>>
    /\ clicked = "extract"
    /\ shown = "error"
    /\ Truthy(session_state.html_content)
    /\ Truthy(session_state.markdown_content)
    /\ Truthy(session_state.extracted)
    /\ session_state.step = 3

SessionKeys == {"extracted", "markdown_content", "html_content"}

\* C23: a successful Extract replaces extracted and raises step to at least
\* 1, leaving markdown_content and html_content as they were, also when
\* they come from an earlier document; a successful Convert leaves
\* extracted and html_content as they were; no action unsets a value that
\* was set or lowers step.
C23_HandlersWriteOwnValueOnly ==
    /\ (clicked = "extract" /\ shown = "success") =>
          /\ session_state.extracted = ListContent(stage.extract.pages)
          /\ session_state.markdown_content = before.markdown_content
          /\ session_state.html_content = before.html_content
          /\ session_state.step = Max(before.step, 1)
    /\ (clicked = "convert" /\ shown = "success") =>
          /\ session_state.extracted = before.extracted
          /\ session_state.html_content = before.html_content
          /\ session_state.step = Max(before.step, 2)
    /\ \A k \in SessionKeys : Truthy(before[k]) => Truthy(session_state[k])
    /\ session_state.step >= before.step

\* a second document is extracted while the page of the first one is kept
C23_Witness ==
    /\ clicked = "extract"
    /\ shown = "success"
    /\ Truthy(before.html_content)
    /\ session_state.extracted # before.extracted
    /\ session_state.markdown_content = before.markdown_content
    /\ session_state.html_content = before.html_content
    /\ session_state.step = 3

====
